---------------------------- MODULE Spec2Model ----------------------------
(***************************************************************************)
(* Model of merge() of src/main.cpp: one reverse pass over a private copy  *)
(* of the caller's vector of closed integer intervals, erasing the current *)
(* element when it is contained in (rule a) or overlaps the lower part of  *)
(* (rule b) some other element.                                            *)
(*                                                                         *)
(* Positions are 0-based as in the C++ code (position i is list[i + 1]).   *)
(* One step of the model is one iteration of the outer for loop, its inner *)
(* for loop included.  Iterators are positions: std::vector iterators are  *)
(* pointers, so after list.erase(it) the cursor keeps its position and the *)
(* for statement's --it moves it to position - 1.                          *)
(***************************************************************************)
EXTENDS Integers, Sequences, FiniteSets

\* Bounds of the model: longest input sequence, largest interval boundary.
MaxLen == 3
MaxVal == 3

VARIABLES
    input,       \* the caller's vector handed to merge (never written by merge)
    list,        \* merge's by-value parameter: the working copy
    it,          \* outer cursor, as a position (-1 is begin() - 1)
    pc,          \* "call" | "loop" | "done" | "crashed"
    origin,      \* history: for each element of list, its position in input
    derefs,      \* history: one record per dereference of the outer cursor
    last,        \* history: what the most recent outer iteration did
    how,         \* which call of the caller this is: "first" | "again" | "perm"
    prevInput,   \* input of the caller's previous call
    prevResult   \* result of the caller's previous call

vars == <<input, list, it, pc, origin, derefs, last, how, prevInput, prevResult>>

-----------------------------------------------------------------------------
(* Intervals *)

\* class Interval: two public ints, no validation in the constructor.
Interval == [min : 0..MaxVal, max : 0..MaxVal]

\* Intervals a caller meant as ranges: min <= max.
ProperInterval == {v \in Interval : v.min <= v.max}

SeqsUpTo(S, n) == UNION {[1..k -> S] : k \in 0..n}

At(s, i) == s[i + 1]

Positions(s) == 0..(Len(s) - 1)

WellFormed(s) == \A i \in Positions(s) : At(s, i).min <= At(s, i).max

AsSet(s) == {At(s, i) : i \in Positions(s)}

-----------------------------------------------------------------------------
(* The pieces of merge *)

\* Rule (a), line 69: current is a subset of the compared interval.
Contained(cur, comp) == cur.min >= comp.min /\ cur.max <= comp.max

\* Rule (b) wrongly requiring more than a shared endpoint.
OverlapsStrictly(cur, comp) ==
    comp.min < cur.max /\ cur.max <= comp.max /\ cur.min < comp.min

\* Rule (b) wrongly accepting a gap of one between the two intervals.
OverlapsOrAdjacent(cur, comp) ==
    comp.min <= cur.max + 1 /\ cur.max <= comp.max /\ cur.min < comp.min

\* Rule (b), lines 77-78: current overlaps the lower part of the compared one.
Overlaps(cur, comp) ==
    comp.min <= cur.max /\ cur.max <= comp.max /\ cur.min < comp.min

\* Rule (b) wrongly leaving the compared interval as it was.
UpdatedKeepsCompared(cur, comp) == comp

\* Rule (b) wrongly taking the upper boundary of current too.
UpdatedTakesCurrentMax(cur, comp) == [min |-> cur.min, max |-> cur.max]

\* Lines 82-83: the compared interval after rule (b).
Updated(cur, comp) == [min |-> cur.min, max |-> comp.max]

\* std::vector::erase at position i: the later elements move down by one.
Erase(s, i) == [k \in 1..(Len(s) - 1) |-> IF k <= i THEN s[k] ELSE s[k + 1]]

\* Line 57, init: it = list.end() - 1.
StartCursor(s) == Len(s) - 1

\* The cursor wrongly stepping over the element before the current one.
NextCursorSkips(i) == i - 2

\* Line 57, step: --it.
NextCursor(i) == i - 1

\* The inner loop wrongly stopping at the current element.
InnerEndAtCurrent(s, i) == i

\* Line 60: the inner loop runs while iter < list.end().
InnerEnd(s, i) == Len(s)

\* Lines 60-89: the inner loop from position iter on; the position where it
\* breaks, or the end position when it runs to the end.
RECURSIVE Scan(_, _, _)
Scan(s, i, iter) ==
    IF iter >= InnerEnd(s, i) THEN Len(s)
    ELSE IF iter = i THEN Scan(s, i, iter + 1)
    ELSE IF Contained(At(s, i), At(s, iter)) \/ Overlaps(At(s, i), At(s, iter))
         THEN iter
         ELSE Scan(s, i, iter + 1)

\* Rule (b) wrongly keeping the merged interval at the current position and
\* erasing the compared one.
CollapseIntoCurrent(s, i, iter) ==
    IF Contained(At(s, i), At(s, iter))
    THEN Erase(s, i)
    ELSE Erase([s EXCEPT ![i + 1] = [min |-> At(s, i).min,
                                      max |-> At(s, iter).max]], iter)

\* Lines 73 and 82-86: the list after the collapse of position i against
\* position iter.
Collapse(s, i, iter) ==
    IF Contained(At(s, i), At(s, iter))
    THEN Erase(s, i)
    ELSE Erase([s EXCEPT ![iter + 1] = Updated(At(s, i), At(s, iter))], i)

-----------------------------------------------------------------------------
(* The state machine *)

NoStep == [rule |-> "none", it |-> -1, iter |-> -1]

InitWith(S) ==
    /\ input \in SeqsUpTo(S, MaxLen)
    /\ list = <<>>
    /\ it = -1
    /\ pc = "call"
    /\ origin = <<>>
    /\ derefs = <<>>
    /\ last = NoStep
    /\ how = "first"
    /\ prevInput = <<>>
    /\ prevResult = <<>>

\* Any vector of intervals the constructor accepts.
Init == InitWith(Interval)

\* Vectors of proper intervals, as in every call of main.
InitProper == InitWith(ProperInterval)

\* Lines 55-57: the argument is copied into list and the cursor is set to
\* end() - 1.  For an empty vector that is begin() - 1: position -1.
Enter ==
    /\ pc = "call"
    /\ list' = input
    /\ origin' = [k \in 1..Len(input) |-> k - 1]
    /\ it' = StartCursor(input)
    /\ pc' = "loop"
    /\ UNCHANGED <<input, derefs, last, how, prevInput, prevResult>>

Deref(rule) ==
    [pos |-> it, len |-> Len(list), org |-> At(origin, it), rule |-> rule]

\* Lines 59-75: the inner loop breaks on rule (a).
VisitContained ==
    /\ pc = "loop"
    /\ it >= 0
    /\ LET iter == Scan(list, it, 0) IN
        /\ iter < Len(list)
        /\ Contained(At(list, it), At(list, iter))
        /\ list' = Collapse(list, it, iter)
        /\ origin' = Erase(origin, it)
        /\ last' = [rule |-> "a", it |-> it, iter |-> iter]
    /\ derefs' = Append(derefs, Deref("a"))
    /\ it' = NextCursor(it)
    /\ UNCHANGED <<input, pc, how, prevInput, prevResult>>

\* Lines 59-88: the inner loop breaks on rule (b).
VisitOverlaps ==
    /\ pc = "loop"
    /\ it >= 0
    /\ LET iter == Scan(list, it, 0) IN
        /\ iter < Len(list)
        /\ ~Contained(At(list, it), At(list, iter))
        /\ list' = Collapse(list, it, iter)
        /\ origin' = Erase(origin, it)
        /\ last' = [rule |-> "b", it |-> it, iter |-> iter]
    /\ derefs' = Append(derefs, Deref("b"))
    /\ it' = NextCursor(it)
    /\ UNCHANGED <<input, pc, how, prevInput, prevResult>>

\* Lines 59-90: the inner loop runs to the end, the current element stays.
VisitKeep ==
    /\ pc = "loop"
    /\ it >= 0
    /\ Scan(list, it, 0) = Len(list)
    /\ last' = [rule |-> "keep", it |-> it, iter |-> Len(list)]
    /\ derefs' = Append(derefs, Deref("keep"))
    /\ it' = NextCursor(it)
    /\ UNCHANGED <<input, list, pc, origin, how, prevInput, prevResult>>

\* Lines 57 and 92: it >= list.begin() is false, merge returns list.
\* After a non-empty list the cursor is begin() - 1, an address below the
\* vector's heap block, and the comparison is false.  With an empty list the
\* cursor is null - 1, which has undefined behaviour: this is the outcome
\* where the comparison is taken to be false.
Return ==
    /\ pc = "loop"
    /\ it < 0
    /\ pc' = "done"
    /\ UNCHANGED <<input, list, it, origin, derefs, last, how, prevInput, prevResult>>

\* Lines 57-59 with an empty list: begin() and end() are null, the cursor
\* null - 1 compares >= begin() as an address, and *it reads an unmapped
\* address: the process dies with SIGSEGV.
WildDereference ==
    /\ pc = "loop"
    /\ it < 0
    /\ Len(list) = 0
    /\ derefs' = Append(derefs,
                    [pos |-> it, len |-> 0, org |-> -1, rule |-> "fault"])
    /\ pc' = "crashed"
    /\ UNCHANGED <<input, list, it, origin, last, how, prevInput, prevResult>>

\* The caller keeps the result and sets up its next call of merge.
NextCall(arg, tag) ==
    /\ prevInput' = input
    /\ prevResult' = list
    /\ input' = arg
    /\ how' = tag
    /\ list' = <<>>
    /\ origin' = <<>>
    /\ derefs' = <<>>
    /\ last' = NoStep
    /\ it' = -1
    /\ pc' = "call"

\* The caller hands merge's result to merge again.
Remerge ==
    /\ pc = "done"
    /\ how = "first"
    /\ NextCall(list, "again")

Perms(n) == {p \in [1..n -> 1..n] : \A a, b \in 1..n : p[a] = p[b] => a = b}

Permuted(s, p) == [k \in 1..Len(s) |-> s[p[k]]]

\* The caller calls merge with the same intervals in another order.
MergePermuted ==
    /\ pc = "done"
    /\ how = "first"
    /\ \E p \in Perms(Len(input)) : NextCall(Permuted(input, p), "perm")

Merge == Enter \/ VisitContained \/ VisitOverlaps \/ VisitKeep \/ Return
            \/ WildDereference

Next == Merge

NextCalls == Merge \/ Remerge \/ MergePermuted

\* One call of merge on any vector.
Spec == Init /\ [][Next]_vars

\* Two calls of merge in a row on vectors of proper intervals.
SpecCalls == InitProper /\ [][NextCalls]_vars

-----------------------------------------------------------------------------
(* Vocabulary of the properties *)

\* The integers of the closed range [v.min, v.max].
Points(v) == v.min..v.max

Covered(s) == UNION {Points(At(s, i)) : i \in Positions(s)}

\* The two intervals share at least one integer.
Share(u, v) == Points(u) \cap Points(v) # {}

\* The positions of s linked to a position of P by a chain of at most k
\* sharing intervals.
RECURSIVE Linked(_, _, _)
Linked(s, P, k) ==
    IF k = 0 THEN P
    ELSE Linked(s, P \cup {j \in Positions(s) :
                             \E i \in P : Share(At(s, i), At(s, j))}, k - 1)

\* The connected component of position i of s.
Component(s, i) == Linked(s, {i}, Len(s))

Components(s) == {Component(s, i) : i \in Positions(s)}

MinOf(S) == CHOOSE x \in S : \A y \in S : x <= y

MaxOf(S) == CHOOSE x \in S : \A y \in S : x >= y

\* [smallest min, largest max] of the intervals of s at the positions in C.
Hull(s, C) == [min |-> MinOf({At(s, i).min : i \in C}),
               max |-> MaxOf({At(s, i).max : i \in C})]

Hulls(s) == {Hull(s, C) : C \in Components(s)}

\* The lowest position of the component C whose max is the component's max.
Anchor(s, C) == MinOf({i \in C : At(s, i).max = Hull(s, C).max})

\* The hulls of the components of s, in the order of their anchors.
RECURSIVE HullsFrom(_, _)
HullsFrom(s, i) ==
    IF i >= Len(s) THEN <<>>
    ELSE (IF Anchor(s, Component(s, i)) = i
          THEN <<Hull(s, Component(s, i))>> ELSE <<>>) \o HullsFrom(s, i + 1)

Disjoint(u, v) == u.max < v.min \/ v.max < u.min

Returned == pc = "done"

Rules == {"a", "b"}

Collapses == Cardinality({k \in DOMAIN derefs : derefs[k].rule \in Rules})

-----------------------------------------------------------------------------
(* Properties *)

\* C1 Coverage preservation: when merge returns on a vector of proper
\* intervals, the integers covered by the result are exactly the integers
\* covered by the input.
CoveragePreserved ==
    (Returned /\ WellFormed(input)) => Covered(list) = Covered(input)

\* A run that returned after both a rule (a) and a rule (b) collapse.
CoverageWitness ==
    /\ Returned
    /\ WellFormed(input)
    /\ \E k \in DOMAIN derefs : derefs[k].rule = "a"
    /\ \E k \in DOMAIN derefs : derefs[k].rule = "b"
    /\ Covered(list) = Covered(input)

\* C2 No residual overlap: when merge returns on a vector of proper
\* intervals, any two elements at distinct positions of the result are
\* strictly apart (max of one < min of the other), and no ordered pair of
\* them satisfies rule (a) or rule (b).
NoResidualOverlap ==
    (Returned /\ WellFormed(input)) =>
        \A i, j \in Positions(list) :
            i # j => /\ Disjoint(At(list, i), At(list, j))
                     /\ ~Contained(At(list, i), At(list, j))
                     /\ ~Overlaps(At(list, i), At(list, j))

\* A run that returned two or more intervals after a chain of collapses.
ResidualWitness ==
    /\ Returned
    /\ WellFormed(input)
    /\ Len(list) >= 2
    /\ Collapses >= 1
    /\ \A i, j \in Positions(list) :
           i # j => Disjoint(At(list, i), At(list, j))

\* C3 Adjacency policy and minimality: when merge returns on a vector of
\* proper intervals, the set of result intervals is the set of hulls of the
\* connected components of the input under "share an integer", one result
\* element per component; so intervals with A.max = B.min become one and
\* intervals with A.max + 1 = B.min and no bridge stay two.
HullsOfComponents ==
    (Returned /\ WellFormed(input)) =>
        /\ AsSet(list) = Hulls(input)
        /\ Len(list) = Cardinality(Components(input))

\* A returned run whose input has a pair touching in one endpoint, now one
\* interval, and a pair one apart, still two intervals.
AdjacencyWitness ==
    /\ Returned
    /\ WellFormed(input)
    /\ \E i, j \in Positions(input) :
           /\ At(input, i).min < At(input, i).max
           /\ At(input, i).max = At(input, j).min
           /\ At(input, j).min < At(input, j).max
           /\ \E v \in AsSet(list) :
                  v.min <= At(input, i).min /\ At(input, j).max <= v.max
    /\ \E i, j \in Positions(input) :
           /\ At(input, i).max + 1 = At(input, j).min
           /\ Component(input, i) # Component(input, j)
           /\ \E u, v \in AsSet(list) :
                  u.max = At(input, i).max /\ v.min = At(input, j).min

\* C4 Order independence: merge of a permutation of a vector of proper
\* intervals returns the same set of (min, max) pairs, and as many
\* elements, as merge of the vector itself.
OrderIndependent ==
    (Returned /\ how = "perm") =>
        /\ AsSet(list) = AsSet(prevResult)
        /\ Len(list) = Len(prevResult)

\* Two intervals with the same min merged in both orders.
OrderWitness ==
    /\ Returned
    /\ how = "perm"
    /\ Len(input) = 2
    /\ input # prevInput
    /\ At(input, 0).min = At(input, 1).min
    /\ At(input, 0).max < At(input, 1).max
    /\ Len(list) = 1
    /\ list = prevResult

\* C5 Idempotence: merge of a result of merge performs no collapse and
\* returns it as it is, so the same set of intervals.
Idempotent ==
    how = "again" =>
        /\ Collapses = 0
        /\ Returned => (list = input /\ AsSet(list) = AsSet(prevResult))

\* A second run that returned, on a first result with two or more intervals
\* left of a longer input.
IdempotentWitness ==
    /\ Returned
    /\ how = "again"
    /\ Len(prevResult) >= 2
    /\ Len(prevInput) > Len(prevResult)
    /\ Len(derefs) = Len(input)
    /\ list = prevResult

\* C6 Empty and singleton inputs: merge never faults; on the empty vector it
\* dereferences nothing and returns the empty vector, and on a vector of one
\* interval it returns that vector.
EmptyAndSingleton ==
    /\ pc # "crashed"
    /\ Len(input) = 0 => Len(derefs) = 0
    /\ (Returned /\ Len(input) <= 1) => list = input

\* C7 No invented boundary: during and after a call every element's min is
\* the min of an input interval and its max the max of an input interval;
\* a step never changes the max of a surviving element and changes its min
\* only to the smaller min of the element erased in that step; and on
\* proper input every element of the working list stays proper.
BoundsFromInput ==
    pc \in {"loop", "done"} =>
        \A i \in Positions(list) :
            /\ \E j \in Positions(input) : At(list, i).min = At(input, j).min
            /\ \E j \in Positions(input) : At(list, i).max = At(input, j).max

StaysProper ==
    (pc \in {"loop", "done"} /\ WellFormed(input)) => WellFormed(list)

PositionOf(orgs, o) == CHOOSE i \in Positions(orgs) : At(orgs, i) = o

StepKeepsBoundaries ==
    (pc = "loop" /\ pc' = "loop") =>
        \A k \in Positions(list') :
            /\ \E i \in Positions(origin) : At(origin, i) = At(origin', k)
            /\ LET old == At(list, PositionOf(origin, At(origin', k)))
                   new == At(list', k)
               IN  /\ new.max = old.max
                   /\ \/ new.min = old.min
                      \/ /\ new.min < old.min
                         /\ new.min = At(list, it).min
                         /\ \A j \in Positions(origin') :
                                At(origin', j) # At(origin, it)

NoInventedBoundary ==
    /\ [](BoundsFromInput /\ StaysProper)
    /\ [][StepKeepsBoundaries]_vars

\* A state right after rule (b) lowered the min of a surviving element.
BoundaryWitness ==
    /\ pc = "loop"
    /\ last.rule = "b"
    /\ WellFormed(input)
    /\ \E i \in Positions(list) :
           At(list, i).min < At(input, At(origin, i)).min

\* C8 Termination: merge returns or can still take a step; a collapse removes
\* exactly one element and nothing is ever added; the outer loop visits at
\* most as many elements as the input has; and the result has at least as
\* many elements as the input has connected components and at most as many
\* as the input.
Terminates ==
    /\ Returned \/ ENABLED Next
    /\ Len(derefs) <= Len(input)
    /\ pc \in {"loop", "done"} => Len(list) = Len(input) - Collapses
    /\ (Returned /\ WellFormed(input)) =>
           /\ Cardinality(Components(input)) <= Len(list)
           /\ Len(list) <= Len(input)

\* C9 Erase while iterating: every dereference of the outer cursor is at a
\* position inside the working list; the elements are visited in strictly
\* decreasing position order, each input element exactly once; and rule (b)
\* updates an element other than the current one.
CursorSafe ==
    /\ \A k \in DOMAIN derefs :
           /\ 0 <= derefs[k].pos
           /\ derefs[k].pos < derefs[k].len
           /\ derefs[k].org = Len(input) - k
           /\ k > 1 => derefs[k].pos < derefs[k - 1].pos
    /\ Returned => Len(derefs) = Len(input)
    /\ last.rule = "b" =>
           /\ last.iter # last.it
           /\ last.iter \in Positions(input)

\* C10 Output order: when merge returns on a vector of proper intervals, the
\* result is the sequence of the hulls of the input's connected components,
\* each at the rank of the lowest input position whose max is the
\* component's largest max.
OutputOrder ==
    (Returned /\ WellFormed(input)) => list = HullsFrom(input, 0)

\* A returned run whose result is not in ascending order of min and whose
\* first component was anchored after a lower position was erased.
OrderedWitness ==
    /\ Returned
    /\ WellFormed(input)
    /\ Len(list) = 2
    /\ At(list, 0).min > At(list, 1).min
    /\ At(origin, 0) > 0
    /\ list = HullsFrom(input, 0)

=============================================================================
